---- MODULE Spec2Model ----
(***************************************************************************)
(* Receiver side of the SAE J1939 transport protocol (TP.CM / TP.DT) of    *)
(* the saelient crate: the Transfer reassembly session of                  *)
(* src/transport/mod.rs driven by DataTransfer frames, over the message    *)
(* types of src/transport/message.rs.                                      *)
(***************************************************************************)
EXTENDS Integers, Sequences, FiniteSets, TLC

(***************************************************************************)
(* Bounds of the model.                                                    *)
(***************************************************************************)
\* largest total_size of a RequestToSend the model constructs (program: 1785)
MaxSize == 16
\* largest configured max_packets_per_response (program: 254)
MaxBurst == 2
\* largest caller-supplied storage region, in bytes
MaxRegion == 22

(***************************************************************************)
(* Program constants.                                                      *)
(***************************************************************************)
\* u8 arithmetic: rx_packets and sequence numbers are 8 bits wide
U8 == 256
\* assert!(total_size >= 9)
MinTotalSize == 9
\* assert!(total_size <= 1785)
MaxTotalSize == 1785
\* payload bytes of one DataTransfer: div_ceil(7), chunks_mut(7), [u8; 7]
SegLen == 7
\* padding byte of the last segment
PadByte == 255
\* Pgn::ProprietaryA
ProprietaryA == 61184
\* Option::None of max_packets_per_response (no burst limit)
NoLimit == -1

Min(a, b) == IF a < b THEN a ELSE b

(***************************************************************************)
(* RequestToSend (message.rs).                                             *)
(***************************************************************************)
\* u16::div_ceil(7)
DivCeil(n, d) == (n + d - 1) \div d

\* variant: the upper limit of total_size is exclusive
RtsNewAcceptsExclusive(total_size, max_packets_per_response) ==
    /\ total_size < MaxTotalSize
    /\ total_size >= MinTotalSize
    /\ (max_packets_per_response # NoLimit => max_packets_per_response < 255)

\* the assertions of RequestToSend::new
RtsNewAccepts(total_size, max_packets_per_response) ==
    /\ total_size <= MaxTotalSize
    /\ total_size >= MinTotalSize
    /\ DivCeil(total_size, SegLen) >= 2
    /\ DivCeil(total_size, SegLen) <= 255
    /\ (max_packets_per_response # NoLimit => max_packets_per_response < 255)

\* RequestToSend::new, for arguments its assertions accept
RequestToSendNew(total_size, max_packets_per_response, pgn) ==
    [ total_size |-> total_size,
      total_packets |-> DivCeil(total_size, SegLen) % U8,
      max_packets_per_response |-> max_packets_per_response,
      pgn |-> pgn ]

\* the RequestToSend values a session is created from
BurstInputs == {NoLimit} \cup (0 .. MaxBurst)
PgnInputs == {ProprietaryA}
RtsInputs ==
    { RequestToSendNew(a[1], a[2], a[3]) :
        a \in { x \in (0 .. MaxSize) \X BurstInputs \X PgnInputs :
                  RtsNewAccepts(x[1], x[2]) } }

(***************************************************************************)
(* The other messages (message.rs): constructors keep their arguments.     *)
(***************************************************************************)
ClearToSendNew(max_packets_per_response, next_sequence, pgn) ==
    [ max_packets_per_response |-> max_packets_per_response,
      next_sequence |-> next_sequence,
      pgn |-> pgn ]

EndOfMessageAckNew(total_size, total_packets, pgn) ==
    [ total_size |-> total_size, total_packets |-> total_packets, pgn |-> pgn ]

ConnectionAbortNew(reason, sender_role, pgn) ==
    [ reason |-> reason, sender_role |-> sender_role, pgn |-> pgn ]

DataTransferNew(sequence, data) == [ sequence |-> sequence, data |-> data ]

(***************************************************************************)
(* The sender's application message and how it is cut into segments        *)
(* (examples/transport_protocol.rs).                                       *)
(***************************************************************************)
\* byte i (from 0) of the application message; never 0 and never the pad byte
PayloadByte(i) == i + 1

\* the message of total_size bytes
Payload(total_size) == [ i \in 1 .. total_size |-> PayloadByte(i - 1) ]

\* data.chunks(7) padded to 7 bytes with 0xFF: the chunk carried by sequence seq
PaddedChunk(total_size, seq) ==
    [ j \in 1 .. SegLen |->
        LET i == SegLen * (seq - 1) + (j - 1)
        IN  IF seq >= 1 /\ i < total_size THEN PayloadByte(i) ELSE PadByte ]

(***************************************************************************)
(* State of one Transfer (mod.rs, struct Transfer) and of its caller.      *)
(***************************************************************************)
VARIABLES
    rts,              \* Transfer.rts
    rx_packets,       \* Transfer.rx_packets: u8
    storage,          \* Transfer.storage: ManagedSlice, Owned(Vec) or Borrowed(slice)
    abort,            \* Transfer.abort
    result,           \* what the last call to next returned (or that it trapped)
    overflow_checks,  \* the build: TRUE traps on integer overflow, FALSE wraps
    accepted,         \* history: sequence numbers whose data has been stored
    ascending,        \* history: n when the calls so far were segments 1..n in order, else -1
    twin,             \* a second Transfer over the same rts, fed the same frames
    conv              \* the last conversion or constructor call of message.rs, with its result

vars == << rts, rx_packets, storage, abort, result, overflow_checks,
           accepted, ascending, twin, conv >>

\* ManagedSlice::Owned(Vec::new())
OwnedStorage == [ kind |-> "Owned", bytes |-> << >> ]

\* ManagedSlice::Borrowed(region): a caller-supplied region of len bytes
BorrowedStorage(len) == [ kind |-> "Borrowed", bytes |-> [ i \in 1 .. len |-> 0 ] ]

StorageInputs == {OwnedStorage} \cup { BorrowedStorage(len) : len \in 0 .. MaxRegion }

\* return values of next
NoCall == [ kind |-> "NoCall" ]
OkNone == [ kind |-> "None" ]
OkCts(cts) == [ kind |-> "Cts", cts |-> cts ]
OkEnd(end) == [ kind |-> "End", end |-> end ]
Err(error, msg) == [ kind |-> "Err", error |-> error, abort_msg |-> msg ]
Panic(cause) == [ kind |-> "Panic", cause |-> cause ]

\* no second Transfer, no conversion made
NoTwin == [ kind |-> "NoTwin" ]
NoConv == [ op |-> "none" ]

\* Transfer::new and Transfer::new_with_storage
Init ==
    /\ twin = NoTwin
    /\ conv = NoConv
    /\ rts \in RtsInputs
    /\ rx_packets = 0
    /\ storage \in StorageInputs
    /\ abort = FALSE
    /\ result = NoCall
    /\ overflow_checks \in BOOLEAN
    /\ accepted = {}
    /\ ascending = 0

(***************************************************************************)
(* Transfer::finished                                                      *)
(***************************************************************************)
\* &self.storage[..total_size]: traps when the storage is shorter
Slice(bytes, n) ==
    IF n <= Len(bytes) THEN [ kind |-> "Some", bytes |-> SubSeq(bytes, 1, n) ]
    ELSE [ kind |-> "Panic" ]

\* the fields of the Transfer under test
Fields == [ rx_packets |-> rx_packets, storage |-> storage, abort |-> abort ]

\* finished() on the fields s of a Transfer
FinishedOf(s) ==
    IF s.rx_packets >= rts.total_packets /\ ~s.abort
    THEN Slice(s.storage.bytes, rts.total_size)
    ELSE [ kind |-> "None" ]

finished == FinishedOf(Fields)

(***************************************************************************)
(* Transfer::next                                                          *)
(***************************************************************************)
\* self.rx_packets + 1 on u8 in a build that wraps
WrappingInc(n) == (n + 1) % U8

\* self.rx_packets + 1 overflows u8
IncOverflows(n) == n + 1 >= U8

\* msg.sequence() != self.rx_packets + 1
SequenceMismatch(sequence, rx) == sequence # WrappingInc(rx)

\* variant: the abort flag is never consulted
PreviousAbortCheckSkipped(flag) == FALSE

\* if self.abort { return Err(PreviousAbort ..) }
PreviousAbortCheck(flag) == flag

\* variant: a sequence error does not latch the abort flag
AbortNotLatched == FALSE

\* the value written to self.abort on a sequence error
AbortOnSequenceError == TRUE

\* the value written to self.abort when the borrowed region has no chunk left
AbortOnStorageTooSmall == TRUE

\* variant: the buffer is not truncated to total_size
OwnedWriteNoTruncate(bytes, data, total_size) == bytes \o data

\* vec.extend_from_slice(&msg.data()); vec.truncate(total_size)
OwnedWrite(bytes, data, total_size) ==
    LET ext == bytes \o data
    IN  SubSeq(ext, 1, Min(Len(ext), total_size))

\* slice.chunks_mut(7).count()
ChunkCount(len) == DivCeil(len, SegLen)

\* variant: the capacity test is off by one window
HasChunkOffByOne(bytes, n) == n <= ChunkCount(Len(bytes))

\* slice.chunks_mut(7).nth(n) is Some
HasChunk(bytes, n) == n < ChunkCount(Len(bytes))

\* chunk.clone_from_slice(&msg.data()[..chunk.len()]) on chunk n
BorrowedWrite(bytes, n, data) ==
    [ i \in 1 .. Len(bytes) |->
        IF SegLen * n < i /\ i <= SegLen * (n + 1)
        THEN data[i - SegLen * n]
        ELSE bytes[i] ]

\* variant: the burst test comes before the end-of-message test
RespondBurstFirst(r, rx, sequence) ==
    IF r.max_packets_per_response # NoLimit /\ r.max_packets_per_response # 0
       /\ sequence % r.max_packets_per_response = 0
    THEN OkCts(ClearToSendNew(r.max_packets_per_response, WrappingInc(rx), r.pgn))
    ELSE IF rx = r.total_packets
    THEN OkEnd(EndOfMessageAckNew(r.total_size, r.total_packets, r.pgn))
    ELSE OkNone

\* variant: the end of the message is announced one segment early
RespondEarlyEnd(r, rx, sequence) ==
    IF rx + 1 = r.total_packets
    THEN OkEnd(EndOfMessageAckNew(r.total_size, r.total_packets, r.pgn))
    ELSE OkNone

\* variant: an absent burst limit is treated as a limit of one packet
RespondUnlimitedAsOne(r, rx, sequence) ==
    IF rx = r.total_packets
    THEN OkEnd(EndOfMessageAckNew(r.total_size, r.total_packets, r.pgn))
    ELSE IF r.max_packets_per_response = 0
    THEN Panic("remainder by zero")
    ELSE IF r.max_packets_per_response = NoLimit
            \/ sequence % r.max_packets_per_response = 0
    THEN OkCts(ClearToSendNew(r.max_packets_per_response, WrappingInc(rx), r.pgn))
    ELSE OkNone

\* the response computed after self.rx_packets += 1 (rx is the new counter)
Respond(r, rx, sequence) ==
    IF rx = r.total_packets
    THEN OkEnd(EndOfMessageAckNew(r.total_size, r.total_packets, r.pgn))
    ELSE IF r.max_packets_per_response # NoLimit
    THEN IF r.max_packets_per_response = 0
         THEN Panic("remainder by zero")
         ELSE IF sequence % r.max_packets_per_response = 0
         THEN IF IncOverflows(rx) /\ overflow_checks
              THEN Panic("add overflow")
              ELSE OkCts(ClearToSendNew(r.max_packets_per_response, WrappingInc(rx), r.pgn))
         ELSE OkNone
    ELSE OkNone

\* variant: the abort frame of the sequence error is reused
PreviousAbortErrorCopied ==
    Err("PreviousAbort", ConnectionAbortNew("BadSequenceNumber", "Receiver", rts.pgn))

PreviousAbortError ==
    Err("PreviousAbort", ConnectionAbortNew("UnexpectedDataTransfer", "Receiver", rts.pgn))

SequenceError ==
    Err("Sequence", ConnectionAbortNew("BadSequenceNumber", "Receiver", rts.pgn))

StorageTooSmallError ==
    Err("StorageTooSmall", ConnectionAbortNew("Custom", "Receiver", rts.pgn))

\* history of the calls made so far
Called(sequence) ==
    ascending' = IF ascending >= 0 /\ sequence = ascending + 1 THEN ascending + 1 ELSE -1

\* the body of next on the fields s of a Transfer: the fields after the call,
\* what the call returned and whether it stored the segment
Step(s, msg) ==
    IF PreviousAbortCheck(s.abort)
    THEN [ rx_packets |-> s.rx_packets, storage |-> s.storage, abort |-> s.abort,
           result |-> PreviousAbortError, stored |-> FALSE ]
    ELSE IF IncOverflows(s.rx_packets) /\ overflow_checks
    THEN [ rx_packets |-> s.rx_packets, storage |-> s.storage, abort |-> s.abort,
           result |-> Panic("add overflow"), stored |-> FALSE ]
    ELSE IF SequenceMismatch(msg.sequence, s.rx_packets)
    THEN [ rx_packets |-> s.rx_packets, storage |-> s.storage,
           abort |-> AbortOnSequenceError,
           result |-> SequenceError, stored |-> FALSE ]
    ELSE IF s.storage.kind = "Borrowed" /\ ~HasChunk(s.storage.bytes, s.rx_packets)
    THEN [ rx_packets |-> s.rx_packets, storage |-> s.storage,
           abort |-> AbortOnStorageTooSmall,
           result |-> StorageTooSmallError, stored |-> FALSE ]
    ELSE [ rx_packets |-> WrappingInc(s.rx_packets),
           storage |->
               IF s.storage.kind = "Owned"
               THEN [ s.storage EXCEPT !.bytes = OwnedWrite(@, msg.data, rts.total_size) ]
               ELSE [ s.storage EXCEPT !.bytes = BorrowedWrite(@, s.rx_packets, msg.data) ],
           abort |-> s.abort,
           result |-> Respond(rts, WrappingInc(s.rx_packets), msg.sequence),
           stored |-> TRUE ]

next(msg) ==
    /\ result.kind # "Panic"
    /\ Called(msg.sequence)
    /\ UNCHANGED << rts, overflow_checks >>
    /\ LET n == Step(Fields, msg)
       IN  /\ rx_packets' = n.rx_packets
           /\ storage' = n.storage
           /\ abort' = n.abort
           /\ result' = n.result
           /\ accepted' = IF n.stored THEN accepted \cup {msg.sequence} ELSE accepted

\* the sequence numbers a frame may carry: the expected one, a duplicate of
\* the last one, a skipped one, 0 and the largest
SequenceInputs ==
    { s \in {0, rx_packets, rx_packets + 1, rx_packets + 2, U8 - 1} : s < U8 }

\* the frames the sender may put on the bus: the segment of its message that
\* belongs to the sequence number
DataTransferInputs ==
    { DataTransferNew(s, PaddedChunk(rts.total_size, s)) : s \in SequenceInputs }

Next == \E msg \in DataTransferInputs : next(msg) /\ UNCHANGED << twin, conv >>

Spec == Init /\ [][Next]_vars

(***************************************************************************)
(* Properties of the session.                                              *)
(***************************************************************************)
Failed(r, error) == r.kind = "Err" /\ r.error = error

Succeeded(r) == r.kind \in {"None", "Cts", "End"}

\* C1: abort is terminal. Once a call to next has failed (with Sequence or
\* StorageTooSmall, and hence also with PreviousAbort), every later call, for
\* any DataTransfer, fails with PreviousAbort and the session stays aborted.
C1_AbortIsTerminal ==
    [][ \A m \in DataTransferInputs :
          (result.kind = "Err" /\ next(m)) =>
              (Failed(result', "PreviousAbort") /\ abort') ]_vars

\* a session that aborted before completion has rejected a further call
C1_Witness ==
    /\ Failed(result, "PreviousAbort")
    /\ abort
    /\ rx_packets < rts.total_packets

\* C2: sequence enforcement. On a session that is not aborted and has counter
\* c, a call with a sequence number other than c+1 sets Aborted, fails with
\* Error::Sequence and leaves the counter and the storage unchanged.
C2_SequenceEnforcement ==
    [][ \A m \in DataTransferInputs :
          (~abort /\ m.sequence # rx_packets + 1 /\ next(m)) =>
              /\ abort'
              /\ Failed(result', "Sequence")
              /\ rx_packets' = rx_packets
              /\ storage' = storage ]_vars

\* the session can take every segment of its message without running out of room
RoomForMessage == storage.kind = "Owned" \/ Len(storage.bytes) >= rts.total_size

\* C3: happy path. Feeding segments 1..total_packets in ascending order, each
\* carrying the next 7 payload bytes (the last one padded), to a session with
\* Growable storage or a Fixed region of at least total_size bytes never
\* fails; finished() is None after each of the first total_packets-1 segments
\* and returns the original total_size bytes after segment total_packets.
C3_HappyPath ==
    (RoomForMessage /\ ascending >= 1 /\ ascending <= rts.total_packets) =>
        /\ Succeeded(result)
        /\ (ascending < rts.total_packets => finished = [ kind |-> "None" ])
        /\ (ascending = rts.total_packets =>
                finished = [ kind |-> "Some", bytes |-> Payload(rts.total_size) ])

\* the happy path with the burst limit 0 left aside
C3_HappyPathNonZeroBurst ==
    rts.max_packets_per_response # 0 => C3_HappyPath

\* C4: burst cadence. With burst limit B, a successful call on the segment
\* with sequence s returns ClearToSend exactly when s mod B = 0 and s is not
\* the final segment, EndOfMessageAck when s is the final segment, and no
\* response otherwise.
C4_BurstCadence ==
    [][ \A m \in DataTransferInputs :
          LET B == rts.max_packets_per_response
              s == m.sequence
              final == s = rts.total_packets
              boundary == B # 0 /\ s % B = 0
          IN  (B # NoLimit /\ next(m) /\ Succeeded(result')) =>
                  /\ result'.kind = "Cts" <=> (boundary /\ ~final)
                  /\ final => result'.kind = "End"
                  /\ (~boundary /\ ~final) => result'.kind = "None" ]_vars

\* the final segment lands on a burst boundary and is answered by EndOfMessageAck
C4_Witness ==
    /\ result.kind = "End"
    /\ rts.max_packets_per_response = 2
    /\ rts.total_packets = 2
    /\ rx_packets = 2

\* C5: read accessor. finished() returns the payload if and only if the
\* received counter is >= total_packets and the session is not aborted.
C5_ReadAccessor ==
    finished.kind = "Some" <=> (rx_packets >= rts.total_packets /\ ~abort)

\* C6: end of message. The call that brings the received counter to
\* total_packets returns an EndOfMessageAck with the total_size, total_packets
\* and content identifier of the RequestToSend, and EndOfMessageAck is only
\* returned once segments 1..total_packets have all been accepted in order.
C6_EndOfMessage ==
    [][ /\ (rx_packets' # rx_packets /\ rx_packets' = rts.total_packets) =>
              result' = [ kind |-> "End",
                          end |-> [ total_size |-> rts.total_size,
                                    total_packets |-> rts.total_packets,
                                    pgn |-> rts.pgn ] ]
        /\ result'.kind = "End" => (1 .. rts.total_packets) \subseteq accepted'
        /\ \A s \in accepted' \ accepted : s > 1 => s - 1 \in accepted ]_vars

\* the third of three segments is answered by the EndOfMessageAck
C6_Witness ==
    /\ result.kind = "End"
    /\ rts.total_size = 16
    /\ result.end.total_packets = 3
    /\ accepted = {1, 2, 3}

\* C7: counter bound. The received counter never exceeds total_packets.
C7_CounterBound == rx_packets <= rts.total_packets

\* window n of a region: the bytes at offsets 7n .. 7n+6 that exist
Window(bytes, n) ==
    [ j \in 1 .. Min(SegLen, Len(bytes) - SegLen * n) |-> bytes[SegLen * n + j] ]

\* C8: fixed storage bound. Over a region with fewer 7-byte windows than
\* total_packets, every in-order segment whose window exists is stored and
\* counted, and the first in-order segment whose window does not exist fails
\* with StorageTooSmall, aborts, and leaves the counter and the region unchanged.
C8_FixedStorageBound ==
    [][ \A m \in DataTransferInputs :
          ( /\ storage.kind = "Borrowed"
            /\ Len(storage.bytes) <= SegLen * (rts.total_packets - 1)
            /\ ~abort
            /\ m.sequence = rx_packets + 1
            /\ next(m) ) =>
              IF Len(storage.bytes) > SegLen * rx_packets
              THEN /\ rx_packets' = rx_packets + 1
                   /\ result'.kind # "Err"
                   /\ ~abort'
                   /\ Window(storage'.bytes, rx_packets)
                        = SubSeq(m.data, 1, Len(Window(storage.bytes, rx_packets)))
              ELSE /\ Failed(result', "StorageTooSmall")
                   /\ abort'
                   /\ rx_packets' = rx_packets
                   /\ storage' = storage ]_vars

\* a region of one and a half windows took two segments and refused the third
C8_Witness ==
    /\ Failed(result, "StorageTooSmall")
    /\ rx_packets = 2
    /\ Len(storage.bytes) = 10
    /\ storage.bytes[8] = PayloadByte(7)

\* C9: every failing call returns a ConnectionAbort with sender role receiver
\* and the content identifier of the RequestToSend, paired Sequence ->
\* bad-sequence-number, StorageTooSmall -> custom, PreviousAbort ->
\* unexpected-data-transfer.
C9_AbortFrame ==
    result.kind = "Err" =>
        /\ result.abort_msg.sender_role = "Receiver"
        /\ result.abort_msg.pgn = rts.pgn
        /\ << result.error, result.abort_msg.reason >> \in
              { << "Sequence", "BadSequenceNumber" >>,
                << "StorageTooSmall", "Custom" >>,
                << "PreviousAbort", "UnexpectedDataTransfer" >> }

\* a call on an aborted session has returned its abort frame
C9_Witness ==
    /\ Failed(result, "PreviousAbort")
    /\ result.abort_msg.reason = "UnexpectedDataTransfer"

\* C10: rejection without mutation. A call on an Aborted session leaves the
\* received counter, the storage, the RequestToSend and the aborted flag as
\* they were, for every DataTransfer.
C10_RejectionWithoutMutation ==
    [][ \A m \in DataTransferInputs :
          (abort /\ next(m)) =>
              /\ rx_packets' = rx_packets
              /\ storage' = storage
              /\ rts' = rts
              /\ abort' = abort ]_vars

\* an aborted session holding stored segments has rejected two calls
C10_Witness ==
    /\ abort
    /\ Failed(result, "PreviousAbort")
    /\ rx_packets >= 1
    /\ Len(storage.bytes) >= SegLen

\* C11: unlimited mode. With no burst limit no call ever returns a
\* ClearToSend, and every successful call before the final segment returns no
\* response.
C11_UnlimitedMode ==
    [][ \A m \in DataTransferInputs :
          (rts.max_packets_per_response = NoLimit /\ next(m)) =>
              /\ result'.kind # "Cts"
              /\ (Succeeded(result') /\ m.sequence < rts.total_packets) =>
                     result'.kind = "None" ]_vars

\* the second of three segments was absorbed without a response
C11_Witness ==
    /\ rts.max_packets_per_response = NoLimit
    /\ rts.total_packets = 3
    /\ rx_packets = 2
    /\ result.kind = "None"

(***************************************************************************)
(* Two sessions over the same RequestToSend, one with Growable storage and *)
(* one over a Fixed region of at least total_size bytes, fed the same      *)
(* frames until their results differ.                                      *)
(***************************************************************************)
\* Transfer::new_with_storage(rts, region) for the second session
TwinNew(len) ==
    [ kind |-> "Twin", rx_packets |-> 0, storage |-> BorrowedStorage(len),
      abort |-> FALSE, result |-> NoCall ]

PairInit ==
    /\ rts \in RtsInputs
    /\ rx_packets = 0
    /\ storage = OwnedStorage
    /\ abort = FALSE
    /\ result = NoCall
    /\ overflow_checks \in BOOLEAN
    /\ accepted = {}
    /\ ascending = 0
    /\ twin \in { TwinNew(len) : len \in rts.total_size .. MaxRegion }
    /\ conv = NoConv

\* next(msg) on both sessions
PairNext ==
    \E msg \in DataTransferInputs :
        /\ twin.result = result
        /\ next(msg)
        /\ LET n == Step(twin, msg)
           IN  twin' = [ kind |-> "Twin", rx_packets |-> n.rx_packets,
                         storage |-> n.storage, abort |-> n.abort, result |-> n.result ]
        /\ UNCHANGED conv

PairSpec == PairInit /\ [][PairNext]_vars

\* C16: no call to next traps. For every RequestToSend accepted by
\* RequestToSend::new (burst limit absent or 0..254) and every DataTransfer in
\* every session state, next returns a success or a failure value.
C16_NoTrap == result.kind # "Panic"

\* C19: re-driving a finished session. On a complete session (counter =
\* total_packets, not aborted) a call with any further DataTransfer fails the
\* sequence check and aborts the session.
C19_RedriveAborts ==
    [][ \A m \in DataTransferInputs :
          (rx_packets = rts.total_packets /\ ~abort /\ next(m)) =>
              (Failed(result', "Sequence") /\ abort') ]_vars

\* C20: backend interchangeability. The Growable session and the Fixed
\* session return the same result from every call and the same finished()
\* after every call.
C20_BackendsAgree ==
    twin.kind = "Twin" =>
        /\ twin.result = result
        /\ FinishedOf(twin) = finished

(***************************************************************************)
(* Properties of the session: responses, storage and the 8-bit counter.    *)
(***************************************************************************)
\* C23: ClearToSend content. Every ClearToSend returned by next after
\* accepting segment s carries next_sequence = s + 1, within 1..255, the burst
\* limit of the RequestToSend and its content identifier.
C23_CtsContent ==
    [][ \A m \in DataTransferInputs :
          (next(m) /\ result'.kind = "Cts") =>
              /\ result'.cts.next_sequence = m.sequence + 1
              /\ result'.cts.next_sequence \in 1 .. 255
              /\ result'.cts.max_packets_per_response = rts.max_packets_per_response
              /\ result'.cts.pgn = rts.pgn ]_vars

\* C24: Growable storage length. The buffer starts empty; an accepted segment
\* appends its 7 bytes and cuts the buffer at total_size, so after k accepted
\* segments it holds min(7k, total_size) bytes; a failed call leaves it alone.
C24_GrowableLength ==
    /\ (storage.kind = "Owned" => storage.bytes = << >>)
    /\ [][ \A m \in DataTransferInputs :
             (storage.kind = "Owned" /\ next(m)) =>
                 /\ Len(storage'.bytes) <= rts.total_size
                 /\ Len(storage'.bytes) = Min(7 * Cardinality(accepted'), rts.total_size)
                 /\ Succeeded(result') =>
                       storage'.bytes =
                           SubSeq(storage.bytes \o m.data, 1,
                                  Min(Len(storage.bytes) + 7, rts.total_size))
                 /\ result'.kind = "Err" => storage' = storage ]_vars

\* the last segment of a 9-byte message was appended and its padding cut off
C24_Witness ==
    /\ storage.kind = "Owned"
    /\ rts.total_size = 9
    /\ result.kind = "End"
    /\ Len(storage.bytes) = 9
    /\ storage.bytes[9] = PayloadByte(8)

\* C26: counter arithmetic stays within 8 bits. Whenever next is called on a
\* session that is not aborted the received counter is below 255, and a
\* ClearToSend is only built from a counter below 255, so counter + 1 never
\* overflows, wraps or traps.
C26_CounterArithmetic ==
    [][ \A m \in DataTransferInputs :
          (~abort /\ next(m)) =>
              /\ rx_packets < 255
              /\ (result'.kind = "Cts" => rx_packets' < 255)
              /\ rx_packets' \in {rx_packets, rx_packets + 1} ]_vars

\* C27: the readable payload is in bounds. Whenever the received counter is
\* >= total_packets and the session is not aborted the storage holds at least
\* total_size bytes and finished() returns exactly total_size bytes.
C27_PayloadInBounds ==
    (rx_packets >= rts.total_packets /\ ~abort) =>
        /\ Len(storage.bytes) >= rts.total_size
        /\ finished.kind = "Some"
        /\ Len(finished.bytes) = rts.total_size

\* C28: the completed payload is stable. Once finished() has returned a
\* payload, after a further call to next it returns the same bytes, or, after
\* an abort, nothing.
C28_PayloadStable ==
    [][ \A m \in DataTransferInputs :
          (finished.kind = "Some" /\ next(m)) =>
              \/ finished' = finished
              \/ (finished'.kind = "None" /\ abort') ]_vars

\* C29: EndOfMessageAck at most once. After the call that returned the
\* EndOfMessageAck (the one that accepted segment total_packets) no call
\* returns an EndOfMessageAck or a ClearToSend.
C29_EndOnce ==
    [][ \A m \in DataTransferInputs :
          (rts.total_packets \in accepted /\ next(m)) =>
              result'.kind \notin {"End", "Cts"} ]_vars

(***************************************************************************)
(* A session over a Fixed region long enough for the 8-bit counter to run  *)
(* through all of its values: 255 or 256 windows of 7 bytes.               *)
(***************************************************************************)
\* the shortest region with 256 windows
WrapRegion == SegLen * (U8 - 1) + 1

WrapInit ==
    /\ rts \in { r \in RtsInputs : r.total_size = MinTotalSize
                                   /\ r.max_packets_per_response \in {NoLimit, 1} }
    /\ rx_packets = 0
    /\ storage \in { BorrowedStorage(len) : len \in {WrapRegion - 1, WrapRegion} }
    /\ abort = FALSE
    /\ result = NoCall
    /\ overflow_checks \in BOOLEAN
    /\ accepted = {}
    /\ ascending = 0
    /\ twin = NoTwin
    /\ conv = NoConv

WrapSpec == WrapInit /\ [][Next]_vars

\* C25: Fixed storage write window. Accepting the segment with sequence s on a
\* Fixed-backed session changes only the region bytes at offsets 7(s-1) up to
\* min(7s, region length), and no window is written twice in one session.
C25_WriteWindow ==
    [][ \A m \in DataTransferInputs :
          (storage.kind = "Borrowed" /\ next(m) /\ Succeeded(result')) =>
              /\ m.sequence \notin accepted
              /\ Len(storage'.bytes) = Len(storage.bytes)
              /\ \A i \in 1 .. Len(storage.bytes) :
                    (i <= 7 * (m.sequence - 1) \/ i > Min(7 * m.sequence, Len(storage.bytes)))
                        => storage'.bytes[i] = storage.bytes[i] ]_vars

(***************************************************************************)
(* Content identifier (id.rs, enum Pgn) and its 24-bit wire value.         *)
(***************************************************************************)
Unit(tag) == [ tag |-> tag, arg |-> 0 ]

\* the PGNs with a variant of their own
NamedPgns ==
    { << 51456, "Request2" >>, << 51712, "Transfer" >>, << 54784, "BootLoadData" >>,
      << 55040, "BinaryDataTransfer" >>, << 55296, "MemoryAccessResponse" >>,
      << 55552, "MemoryAccessRequest" >>, << 59904, "Request" >>,
      << 59392, "Acknowledgement" >>, << 60160, "TransportProtocolDataTransfer" >>,
      << 60416, "TransportProtocolConnectionManagement" >>,
      << 61184, "ProprietaryA" >>, << 126720, "ProprietaryA2" >> }

\* impl From<u32> for Pgn
PgnFromU32(value) ==
    IF \E n \in NamedPgns : n[1] = value
    THEN Unit((CHOOSE n \in NamedPgns : n[1] = value)[2])
    ELSE IF 65280 <= value /\ value <= 65535
    THEN [ tag |-> "ProprietaryB", arg |-> value % 256 ]
    ELSE IF 130816 <= value /\ value <= 131071
    THEN [ tag |-> "ProprietaryB2", arg |-> value % 256 ]
    ELSE [ tag |-> "Other", arg |-> value ]

\* impl From<&Pgn> for u32
PgnToU32(pgn) ==
    IF \E n \in NamedPgns : n[2] = pgn.tag
    THEN (CHOOSE n \in NamedPgns : n[2] = pgn.tag)[1]
    ELSE IF pgn.tag = "ProprietaryB" THEN 65280 + pgn.arg
    ELSE IF pgn.tag = "ProprietaryB2" THEN 130816 + pgn.arg
    ELSE pgn.arg

\* u32::to_le_bytes / u16::to_le_bytes: byte k (from 0)
LeByte(value, k) == (value \div (U8 ^ k)) % U8

\* u16::from_le_bytes([b0, b1])
U16FromLe(b0, b1) == b0 + U8 * b1

\* u32::from_le_bytes([b0, b1, b2, 0x00])
U32FromLe3(b0, b1, b2) == b0 + U8 * b1 + U8 * U8 * b2

(***************************************************************************)
(* AbortReason and AbortSenderRole (message.rs).                           *)
(***************************************************************************)
\* enum AbortReason with its discriminants
AbortReasons ==
    { << "MaxConnections", 1 >>, << "CanceledBySystem", 2 >>, << "Timeout", 3 >>,
      << "CtsWhileDataTransfer", 4 >>, << "RetransmitLimitReached", 5 >>,
      << "UnexpectedDataTransfer", 6 >>, << "BadSequenceNumber", 7 >>,
      << "DuplicateSequenceNumber", 8 >>, << "MessageTooLarge", 9 >>,
      << "Custom", 250 >> }

\* enum AbortSenderRole with its discriminants
AbortSenderRoles ==
    { << "Sender", 0 >>, << "Receiver", 1 >>, << "Reserved", 2 >>, << "NotSpecified", 3 >> }

\* impl From<&AbortReason> for u8
ReasonToU8(reason) == (CHOOSE e \in AbortReasons : e[1] = reason)[2]

\* impl From<&AbortSenderRole> for u8
RoleToU8(role) == (CHOOSE e \in AbortSenderRoles : e[1] = role)[2]

\* impl TryFrom<u8> for AbortReason, with .unwrap_or(AbortReason::Custom)
ReasonFromU8OrCustom(value) ==
    IF \E e \in AbortReasons : e[2] = value
    THEN (CHOOSE e \in AbortReasons : e[2] = value)[1]
    ELSE "Custom"

\* the match arms of impl TryFrom<u8> for AbortSenderRole
RoleArms == { e \in AbortSenderRoles : e[1] \in {"Sender", "Receiver", "NotSpecified"} }

\* impl TryFrom<u8> for AbortSenderRole, with .unwrap_or(AbortSenderRole::NotSpecified)
RoleFromU8OrNotSpecified(value) ==
    IF \E e \in RoleArms : e[2] = value
    THEN (CHOOSE e \in RoleArms : e[2] = value)[1]
    ELSE "NotSpecified"

(***************************************************************************)
(* Encoders and decoders of the five messages (message.rs).                *)
(***************************************************************************)
DecodeOk(value) == [ ok |-> TRUE, value |-> value ]
DecodeErr(slice) == [ ok |-> FALSE, err |-> slice ]

\* Option<u8>::unwrap_or(255)
BurstToU8(max_packets_per_response) ==
    IF max_packets_per_response = NoLimit THEN 255 ELSE max_packets_per_response

\* variant: the sentinel 255 is not mapped to None
BurstFromU8Plain(value) == value

\* match value { 0..255 => Some(value), 255 => None }
BurstFromU8(value) == IF value = 255 THEN NoLimit ELSE value

\* impl From<RequestToSend> for [u8; 8]
EncodeRts(val) ==
    << 16, LeByte(val.total_size, 0), LeByte(val.total_size, 1), val.total_packets,
       BurstToU8(val.max_packets_per_response),
       LeByte(PgnToU32(val.pgn), 0), LeByte(PgnToU32(val.pgn), 1), LeByte(PgnToU32(val.pgn), 2) >>

\* impl TryFrom<&[u8]> for RequestToSend
DecodeRts(value) ==
    IF Len(value) # 8 THEN DecodeErr(value)
    ELSE IF value[1] # 16 THEN DecodeErr(value)
    ELSE DecodeOk([ total_size |-> U16FromLe(value[2], value[3]),
                    total_packets |-> value[4],
                    max_packets_per_response |-> BurstFromU8(value[5]),
                    pgn |-> PgnFromU32(U32FromLe3(value[6], value[7], value[8])) ])

\* impl From<&ClearToSend> for [u8; 8]
EncodeCts(value) ==
    << 17, BurstToU8(value.max_packets_per_response), value.next_sequence, 255, 255,
       LeByte(PgnToU32(value.pgn), 0), LeByte(PgnToU32(value.pgn), 1),
       LeByte(PgnToU32(value.pgn), 2) >>

\* variant: the multiplexor of RequestToSend is tested
DecodeCtsCopied(value) ==
    IF Len(value) # 8 THEN DecodeErr(value)
    ELSE IF value[1] # 16 THEN DecodeErr(value)
    ELSE DecodeOk([ max_packets_per_response |-> BurstFromU8(value[2]),
                    next_sequence |-> value[3],
                    pgn |-> PgnFromU32(U32FromLe3(value[6], value[7], value[8])) ])

\* impl TryFrom<&[u8]> for ClearToSend
DecodeCts(value) ==
    IF Len(value) # 8 THEN DecodeErr(value)
    ELSE IF value[1] # 17 THEN DecodeErr(value)
    ELSE DecodeOk([ max_packets_per_response |-> BurstFromU8(value[2]),
                    next_sequence |-> value[3],
                    pgn |-> PgnFromU32(U32FromLe3(value[6], value[7], value[8])) ])

\* impl From<&EndOfMessageAck> for [u8; 8]
EncodeEnd(value) ==
    << 19, LeByte(value.total_size, 0), LeByte(value.total_size, 1), value.total_packets,
       255,
       LeByte(PgnToU32(value.pgn), 0), LeByte(PgnToU32(value.pgn), 1),
       LeByte(PgnToU32(value.pgn), 2) >>

\* impl TryFrom<&[u8]> for EndOfMessageAck
DecodeEnd(value) ==
    IF Len(value) # 8 THEN DecodeErr(value)
    ELSE IF value[1] # 19 THEN DecodeErr(value)
    ELSE DecodeOk([ total_size |-> U16FromLe(value[2], value[3]),
                    total_packets |-> value[4],
                    pgn |-> PgnFromU32(U32FromLe3(value[6], value[7], value[8])) ])

\* u8::from(&value.sender_role) & 0b11111100
RoleBits(role) == (RoleToU8(role) \div 4) * 4

\* impl From<&ConnectionAbort> for [u8; 8]
EncodeAbort(value) ==
    << 255, ReasonToU8(value.reason), RoleBits(value.sender_role), 255, 255,
       LeByte(PgnToU32(value.pgn), 0), LeByte(PgnToU32(value.pgn), 1),
       LeByte(PgnToU32(value.pgn), 2) >>

\* impl TryFrom<&[u8]> for ConnectionAbort
DecodeAbort(value) ==
    IF Len(value) # 8 THEN DecodeErr(value)
    ELSE IF value[1] # 255 THEN DecodeErr(value)
    ELSE DecodeOk([ reason |-> ReasonFromU8OrCustom(value[2]),
                    sender_role |-> RoleFromU8OrNotSpecified(value[3] % 4),
                    pgn |-> PgnFromU32(U32FromLe3(value[6], value[7], value[8])) ])

\* impl From<&DataTransfer> for [u8; 8]
EncodeDt(value) == << value.sequence >> \o value.data

\* impl TryFrom<&[u8]> for DataTransfer
DecodeDt(value) ==
    IF Len(value) # 8 THEN DecodeErr(value)
    ELSE DecodeOk([ sequence |-> value[1], data |-> SubSeq(value, 2, 8) ])

MessageKinds ==
    { "RequestToSend", "ClearToSend", "EndOfMessageAck", "ConnectionAbort", "DataTransfer" }

Encode(kind, value) ==
    CASE kind = "RequestToSend" -> EncodeRts(value)
      [] kind = "ClearToSend" -> EncodeCts(value)
      [] kind = "EndOfMessageAck" -> EncodeEnd(value)
      [] kind = "ConnectionAbort" -> EncodeAbort(value)
      [] kind = "DataTransfer" -> EncodeDt(value)

Decode(kind, slice) ==
    CASE kind = "RequestToSend" -> DecodeRts(slice)
      [] kind = "ClearToSend" -> DecodeCts(slice)
      [] kind = "EndOfMessageAck" -> DecodeEnd(slice)
      [] kind = "ConnectionAbort" -> DecodeAbort(slice)
      [] kind = "DataTransfer" -> DecodeDt(slice)

(***************************************************************************)
(* The codec on its own: constructor calls, conversions to bytes and back, *)
(* and decoding of byte slices taken off the bus.                          *)
(***************************************************************************)
\* 24-bit wire values of content identifiers
WireIds == {0, 51456, 61184, 65285, 126720, 130817, 16777215}

\* total sizes of messages put on the wire
CodecSizes == (MinTotalSize .. MaxSize) \cup {255, 256, 1785}

\* burst limits of messages put on the wire
CodecBursts == BurstInputs \cup {254}

RtsValues ==
    { RequestToSendNew(a[1], a[2], PgnFromU32(a[3])) :
        a \in CodecSizes \X CodecBursts \X WireIds }

CtsValues ==
    { ClearToSendNew(a[1], a[2], PgnFromU32(a[3])) :
        a \in CodecBursts \X {1, 2, 255} \X WireIds }

EndValues ==
    { EndOfMessageAckNew(a[1], DivCeil(a[1], SegLen), PgnFromU32(a[2])) :
        a \in CodecSizes \X WireIds }

AbortValues ==
    { ConnectionAbortNew(a[1][1], a[2][1], PgnFromU32(a[3])) :
        a \in AbortReasons \X AbortSenderRoles \X WireIds }

DtValues ==
    { DataTransferNew(a[1], a[2]) :
        a \in {1, 2, 255} \X { PaddedChunk(MinTotalSize, 1), PaddedChunk(MinTotalSize, 2),
                               [ j \in 1 .. SegLen |-> 0 ] } }

Values(kind) ==
    CASE kind = "RequestToSend" -> RtsValues
      [] kind = "ClearToSend" -> CtsValues
      [] kind = "EndOfMessageAck" -> EndValues
      [] kind = "ConnectionAbort" -> AbortValues
      [] kind = "DataTransfer" -> DtValues

\* 8-byte frames as they may arrive, well formed or not
FrameInputs ==
    { << a[1], a[2], a[3], 3, 255, 0, 239, 0 >> :
        a \in {16, 17, 19, 255, 0, 32} \X {0, 1, 7, 10, 16, 250, 251, 255}
              \X {0, 1, 2, 3, 4, 6, 254, 255} }

\* byte slices handed to try_from: frames, and slices one byte short or long
SliceInputs ==
    FrameInputs \cup { SubSeq(f, 1, 7) : f \in FrameInputs }
                \cup { f \o << 0 >> : f \in FrameInputs } \cup { << >> }

\* arguments of RequestToSend::new: a u16 and an Option<u8>
NewSizeInputs == (0 .. MaxSize) \cup {1784, 1785, 1786, 65535}
NewBurstInputs == BurstInputs \cup {254, 255}

\* one session, left untouched while one call of the codec is made
CodecInit ==
    /\ rts = RequestToSendNew(MinTotalSize, NoLimit, ProprietaryA)
    /\ rx_packets = 0
    /\ storage = OwnedStorage
    /\ abort = FALSE
    /\ result = NoCall
    /\ overflow_checks = FALSE
    /\ accepted = {}
    /\ ascending = 0
    /\ twin = NoTwin
    /\ conv = NoConv

SessionUntouched ==
    UNCHANGED << rts, rx_packets, storage, abort, result, overflow_checks,
                 accepted, ascending, twin >>

\* RequestToSend::new(total_size, max_packets_per_response, pgn)
New(total_size, max_packets_per_response, pgn) ==
    /\ conv = NoConv
    /\ conv' = [ op |-> "new",
                 total_size |-> total_size,
                 max_packets_per_response |-> max_packets_per_response,
                 accepted |-> RtsNewAccepts(total_size, max_packets_per_response),
                 value |-> IF RtsNewAccepts(total_size, max_packets_per_response)
                           THEN RequestToSendNew(total_size, max_packets_per_response, pgn)
                           ELSE Panic("assertion failed") ]
    /\ SessionUntouched

\* <[u8; 8]>::from(value) followed by try_from on the bytes
RoundTrip(kind, value) ==
    /\ conv = NoConv
    /\ conv' = [ op |-> "round_trip", kind |-> kind, value |-> value,
                 bytes |-> Encode(kind, value),
                 decoded |-> Decode(kind, Encode(kind, value)) ]
    /\ SessionUntouched

\* try_from(slice) as the given kind of message
TryFrom(kind, slice) ==
    /\ conv = NoConv
    /\ conv' = [ op |-> "try_from", kind |-> kind, slice |-> slice,
                 decoded |-> Decode(kind, slice) ]
    /\ SessionUntouched

CodecNext ==
    \/ \E s \in NewSizeInputs, b \in NewBurstInputs : New(s, b, PgnFromU32(61184))
    \/ \E k \in MessageKinds : \E v \in Values(k) : RoundTrip(k, v)
    \/ \E k \in MessageKinds : \E s \in SliceInputs : TryFrom(k, s)

CodecSpec == CodecInit /\ [][CodecNext]_vars

(***************************************************************************)
(* Properties of the codec.                                                *)
(***************************************************************************)
RoundTripOf(kind) == conv.op = "round_trip" /\ conv.kind = kind

TryFromOf(kind) == conv.op = "try_from" /\ conv.kind = kind

\* C12: ConnectionAbort round trip. Decoding the 8-byte encoding of a
\* ConnectionAbort built from any of the ten reasons, any of the four sender
\* roles and any 24-bit content identifier yields the same reason, sender role
\* and content identifier.
C12_AbortRoundTrip ==
    RoundTripOf("ConnectionAbort") =>
        /\ conv.decoded.ok
        /\ conv.decoded.value.reason = conv.value.reason
        /\ conv.decoded.value.sender_role = conv.value.sender_role
        /\ conv.decoded.value.pgn = conv.value.pgn

\* C13: round trip of RequestToSend, ClearToSend, EndOfMessageAck and
\* DataTransfer. Decoding the 8-byte encoding of a value with valid fields
\* reproduces every field; an absent burst limit is carried as byte 255.
C13_RoundTrip ==
    ( /\ conv.op = "round_trip"
      /\ conv.kind \in {"RequestToSend", "ClearToSend", "EndOfMessageAck", "DataTransfer"} ) =>
        /\ Len(conv.bytes) = 8
        /\ conv.decoded = [ ok |-> TRUE, value |-> conv.value ]
        /\ (conv.kind = "RequestToSend" /\ conv.value.max_packets_per_response = NoLimit)
              => conv.bytes[5] = 255
        /\ (conv.kind = "ClearToSend" /\ conv.value.max_packets_per_response = NoLimit)
              => conv.bytes[2] = 255

\* the largest RequestToSend without a burst limit went to the wire and back
C13_Witness ==
    /\ RoundTripOf("RequestToSend")
    /\ conv.value.total_size = 1785
    /\ conv.value.total_packets = 255
    /\ conv.value.max_packets_per_response = NoLimit
    /\ conv.decoded.ok

\* the multiplexor byte of each connection-management message
MuxOf(kind) ==
    CASE kind = "RequestToSend" -> 16
      [] kind = "ClearToSend" -> 17
      [] kind = "EndOfMessageAck" -> 19
      [] kind = "ConnectionAbort" -> 255

\* C14: decode failure preserves the input. Decoding a slice as a
\* connection-management message fails exactly when its length is not 8 or
\* byte 0 is not the kind's multiplexor, decoding it as DataTransfer fails
\* exactly when its length is not 8, and the failure value is the slice.
C14_DecodeFailure ==
    conv.op = "try_from" =>
        /\ ~conv.decoded.ok <=>
              \/ Len(conv.slice) # 8
              \/ (conv.kind # "DataTransfer" /\ conv.slice[1] # MuxOf(conv.kind))
        /\ ~conv.decoded.ok => conv.decoded.err = conv.slice

\* an 8-byte RequestToSend frame offered to the ClearToSend decoder came back
C14_Witness ==
    /\ TryFromOf("ClearToSend")
    /\ Len(conv.slice) = 8
    /\ conv.slice[1] = 16
    /\ conv.decoded = [ ok |-> FALSE, err |-> conv.slice ]

CeilSeventh(n) == CHOOSE k \in 0 .. n : SegLen * k >= n /\ (k = 0 \/ SegLen * (k - 1) < n)

\* C17: construction contract. RequestToSend::new accepts exactly total_size
\* in 9..1785 with a burst limit that is absent or < 255; the total_packets it
\* derives is ceil(total_size/7), in 2..255, not truncated.
C17_ConstructionContract ==
    conv.op = "new" =>
        /\ conv.accepted <=>
              /\ conv.total_size \in 9 .. 1785
              /\ (conv.max_packets_per_response = NoLimit
                    \/ conv.max_packets_per_response < 255)
        /\ conv.accepted =>
              /\ conv.value.total_size = conv.total_size
              /\ conv.value.max_packets_per_response = conv.max_packets_per_response
              /\ conv.value.total_packets = CeilSeventh(conv.total_size)
              /\ conv.value.total_packets \in 2 .. 255

\* the largest total_size was accepted and gave 255 packets
C17_Witness ==
    /\ conv.op = "new"
    /\ conv.total_size = 1785
    /\ conv.accepted
    /\ conv.value.total_packets = 255

\* the data-model invariant of a RequestToSend
RtsValid(r) ==
    /\ r.total_size \in 9 .. 1785
    /\ r.total_packets \in 2 .. 255
    /\ r.total_packets = CeilSeventh(r.total_size)
    /\ (r.max_packets_per_response # NoLimit => r.max_packets_per_response < 255)

\* C18: every RequestToSend built by RequestToSend::new or decoded from an
\* 8-byte frame with multiplexor 16 satisfies the data-model invariant.
C18_RtsInvariant ==
    /\ (conv.op = "new" /\ conv.accepted) => RtsValid(conv.value)
    /\ (TryFromOf("RequestToSend") /\ conv.decoded.ok) => RtsValid(conv.decoded.value)

(***************************************************************************)
(* The 29-bit identifier (id.rs): PduFormat, Id and IdBuilder.             *)
(***************************************************************************)
\* Option<T>
None == << >>
Some(x) == << x >>

\* a | b on unsigned integers
RECURSIVE BitOr(_, _)
BitOr(a, b) ==
    IF a = 0 THEN b
    ELSE IF b = 0 THEN a
    ELSE (IF a % 2 = 1 \/ b % 2 = 1 THEN 1 ELSE 0) + 2 * BitOr(a \div 2, b \div 2)

\* x << n on a u32: the bits shifted past bit 31 are dropped
Shl32(x, n) == (x % 2 ^ (32 - n)) * 2 ^ n

\* impl From<u8> for PduFormat
PduFormatFromU8(value) ==
    IF value <= 239 THEN [ tag |-> "Pdu1", arg |-> value ]
    ELSE [ tag |-> "Pdu2", arg |-> value ]

\* impl From<&Pgn> for PduFormat
PduFormatFromPgn(pgn) == PduFormatFromU8((PgnToU32(pgn) \div 256) % 256)

\* Id::new: the raw value masked to 29 bits
IdNew(raw) == raw % 2 ^ 29

\* Id::priority: (self.0 >> 26) as u8
IdPriority(id) == (id \div 2 ^ 26) % 256

\* Id::pf
IdPf(id) == PduFormatFromU8((id \div 2 ^ 16) % 256)

\* Id::pgn
IdPgn(id) ==
    IF IdPf(id).tag = "Pdu1"
    THEN PgnFromU32(((id \div 2 ^ 16) % 256) * 256)
    ELSE PgnFromU32((id \div 256) % 65536)

\* Id::ps
IdPs(id) == (id \div 256) % 256

\* Id::da
IdDa(id) == IF IdPs(id) <= 239 THEN Some(IdPs(id)) ELSE None

\* Id::sa
IdSa(id) == id % 256

\* IdBuilder::new() followed by the setters that were called
IdBuilderOf(priority, pgn, sa, da) ==
    [ priority |-> priority, pgn |-> pgn, sa |-> sa, da |-> da ]

\* IdBuilder::build
IdBuilderBuild(b) ==
    IF b.pgn = None \/ b.sa = None THEN None
    ELSE LET id == BitOr(BitOr(Shl32(IF b.priority = None THEN 6 ELSE b.priority[1], 26),
                               Shl32(PgnToU32(b.pgn[1]), 8)), b.sa[1])
         IN  IF IdPf(IdNew(id)).tag = "Pdu1"
             THEN IF b.da = None THEN None ELSE Some(BitOr(id, Shl32(b.da[1], 8)))
             ELSE Some(id)

\* 24-bit wire values: every named PGN, the proprietary ranges and their edges
WireValues ==
    { n[1] : n \in NamedPgns } \cup
    { 0, 1, 255, 256, 61183, 61185, 65279, 65280, 65281, 65535, 65536, 126719, 126721,
      130815, 130816, 130900, 131071, 131072, 262143, 262144, 16777215 }

\* Pgn values: those the wire gives, and Other(..) written by hand
PgnValues ==
    { PgnFromU32(v) : v \in WireValues } \cup
    { [ tag |-> "Other", arg |-> v ] : v \in WireValues \cup {16777216, 2147483647} }

\* arguments of the builder's setters
PriorityInputs == { None } \cup { Some(p) : p \in {0, 3, 6, 7} }
BuilderPgnInputs ==
    { None } \cup
    { Some(PgnFromU32(v)) : v \in {0, 51456, 59904, 60160, 61184, 61440, 65279, 65280, 65535, 126720, 130816} }
AddressInputs == { None } \cup { Some(a) : a \in {0, 85, 239, 255} }

\* u32 -> Pgn -> u32
PgnOfU32(value) ==
    /\ conv = NoConv
    /\ conv' = [ op |-> "pgn_from_u32", value |-> value, pgn |-> PgnFromU32(value),
                 back |-> PgnToU32(PgnFromU32(value)) ]
    /\ SessionUntouched

\* Pgn -> u32 -> Pgn
U32OfPgn(pgn) ==
    /\ conv = NoConv
    /\ conv' = [ op |-> "u32_from_pgn", pgn |-> pgn, value |-> PgnToU32(pgn),
                 back |-> PgnFromU32(PgnToU32(pgn)) ]
    /\ SessionUntouched

\* IdBuilder::new() .. build(), then the accessors of the Id it gives
Build(b) ==
    /\ conv = NoConv
    /\ conv' = LET id == IdBuilderBuild(b)
               IN  IF id = None
                   THEN [ op |-> "build", builder |-> b, built |-> FALSE ]
                   ELSE [ op |-> "build", builder |-> b, built |-> TRUE, id |-> id[1],
                          priority |-> IdPriority(id[1]), pgn |-> IdPgn(id[1]),
                          pf |-> IdPf(id[1]), sa |-> IdSa(id[1]), da |-> IdDa(id[1]) ]
    /\ SessionUntouched

IdNext ==
    \/ \E v \in WireValues : PgnOfU32(v)
    \/ \E p \in PgnValues : U32OfPgn(p)
    \/ \E p \in PriorityInputs, g \in BuilderPgnInputs, s \in AddressInputs, d \in AddressInputs :
          Build(IdBuilderOf(p, g, s, d))

IdSpec == CodecInit /\ [][IdNext]_vars

\* C21: content identifier round trip. Every 24-bit wire value converted to a
\* Pgn and back gives the same value, and every Pgn whose integer form fits in
\* 24 bits converted to its integer and back gives an equal Pgn.
C21_PgnRoundTrip ==
    /\ (conv.op = "pgn_from_u32" /\ conv.value < 2 ^ 24) => conv.back = conv.value
    /\ (conv.op = "u32_from_pgn" /\ conv.value < 2 ^ 24) => conv.back = conv.pgn

\* the first half of C21 alone, as a check of the model
C21_WireToPgnToWire ==
    (conv.op = "pgn_from_u32" /\ conv.value < 2 ^ 24) => conv.back = conv.value

\* C22: identifier build/parse round trip. An Id built from priority p (6 when
\* unset), PGN g, source address s and, for a PDU1 PGN, destination address d
\* gives back p, g, s and d from its accessors; build gives no Id exactly when
\* the PGN or the source address is missing, or the PGN is PDU1 and the
\* destination address is missing.
C22_BuildParse ==
    conv.op = "build" =>
        LET b == conv.builder
            missing == \/ b.pgn = None
                       \/ b.sa = None
                       \/ (PduFormatFromPgn(b.pgn[1]).tag = "Pdu1" /\ b.da = None)
        IN  /\ ~conv.built <=> missing
            /\ conv.built =>
                  /\ conv.priority = (IF b.priority = None THEN 6 ELSE b.priority[1])
                  /\ conv.pgn = b.pgn[1]
                  /\ conv.sa = b.sa[1]
                  /\ (PduFormatFromPgn(b.pgn[1]).tag = "Pdu1") => conv.da = b.da

\* the part of C22 about when build gives an Id, and priority and sa
C22_BuildDomain ==
    conv.op = "build" =>
        LET b == conv.builder
            missing == \/ b.pgn = None
                       \/ b.sa = None
                       \/ (PduFormatFromPgn(b.pgn[1]).tag = "Pdu1" /\ b.da = None)
        IN  /\ ~conv.built <=> missing
            /\ conv.built =>
                  /\ conv.priority = (IF b.priority = None THEN 6 ELSE b.priority[1])
                  /\ conv.sa = b.sa[1]

(***************************************************************************)
(* DM14 memory access request (diagnostic.rs): an 8-byte frame `raw`.      *)
(***************************************************************************)
\* the commands with a variant of their own
Commands ==
    { << "Erase", 0 >>, << "Read", 1 >>, << "Write", 2 >>, << "StatusRequest", 3 >>,
      << "OperationCompleted", 4 >>, << "OperationFailed", 5 >>, << "BootLoad", 6 >>,
      << "EdcpGeneration", 7 >> }

\* impl From<Command> for u8
CommandToU8(command) ==
    IF command.tag = "Other" THEN command.arg
    ELSE (CHOOSE c \in Commands : c[1] = command.tag)[2]

\* impl From<u8> for Command
CommandFromU8(value) ==
    IF \E c \in Commands : c[2] = value
    THEN Unit((CHOOSE c \in Commands : c[2] = value)[1])
    ELSE [ tag |-> "Other", arg |-> value ]

\* impl PartialEq for Command: the underlying values are compared
CommandEq(a, b) == CommandToU8(a) = CommandToU8(b)

\* Pointer::Direct(value) / Pointer::Spatial(value)
PointerOf(tag, value) == [ tag |-> tag, value |-> value ]

\* u32::from_le_bytes([b0, b1, b2, b3])
U32FromLe4(b0, b1, b2, b3) == b0 + U8 * b1 + U8 * U8 * b2 + U8 * U8 * U8 * b3

\* x << n on a u8
Shl8(x, n) == (x * 2 ^ n) % U8

\* the assertion of MemoryAccessRequest::new
MarNewAccepts(length) == length <= 2047

\* MemoryAccessRequest::new: the frame it fills in
MemoryAccessRequestNew(command, pointer, length, key_or_user_level) ==
    << LeByte(length, 0),
       BitOr(Shl8(LeByte(length, 1), 5), Shl8(CommandToU8(command), 1)),
       LeByte(pointer.value, 0), LeByte(pointer.value, 1),
       LeByte(pointer.value, 2), LeByte(pointer.value, 3),
       LeByte(key_or_user_level, 0), LeByte(key_or_user_level, 1) >>

\* MemoryAccessRequest::length
MarLength(raw) == U16FromLe(raw[1], (raw[2] \div 32) % 8)

\* MemoryAccessRequest::command
MarCommand(raw) == CommandFromU8((raw[2] \div 2) % 8)

\* MemoryAccessRequest::pointer
MarPointer(raw) ==
    PointerOf(IF (raw[2] \div 16) % 2 # 0 THEN "Spatial" ELSE "Direct",
              U32FromLe4(raw[3], raw[4], raw[5], raw[6]))

\* MemoryAccessRequest::key_or_user_level
MarKey(raw) == U16FromLe(raw[7], raw[8])

\* impl TryFrom<&[u8]> for MemoryAccessRequest
MarTryFrom(value) == IF Len(value) = 8 THEN DecodeOk(value) ELSE DecodeErr(value)

\* impl From<&MemoryAccessRequest> for [u8; 8]
MarToBytes(raw) == raw

\* arguments of MemoryAccessRequest::new
CommandInputs == { Unit(c[1]) : c \in Commands }
PointerInputs ==
    { PointerOf(k, v) : k \in {"Direct", "Spatial"}, v \in {0, 74565, 2147483647} }
LengthInputs == {0, 1, 255, 256, 288, 2047, 2048}
KeyInputs == {0, 4660, 65535}

\* slices handed to try_from
MarSliceInputs ==
    { << a[1], a[2], 69, 35, 1, 0, a[3], 0 >> :
        a \in {0, 32, 255} \X {0, 16, 34, 50, 255} \X {0, 255} } \cup
    { << 32, 34, 69, 35, 1, 0, 0 >>, << 32, 34, 69, 35, 1, 0, 0, 0, 0 >>, << >> }

\* MemoryAccessRequest::new(..) and the accessors of the request
MarNew(command, pointer, length, key_or_user_level) ==
    /\ conv = NoConv
    /\ conv' = IF MarNewAccepts(length)
               THEN LET raw == MemoryAccessRequestNew(command, pointer, length,
                                                      key_or_user_level)
                    IN  [ op |-> "mar_new", accepted |-> TRUE,
                          args |-> [ command |-> command, pointer |-> pointer,
                                     length |-> length,
                                     key_or_user_level |-> key_or_user_level ],
                          raw |-> raw, length |-> MarLength(raw),
                          command |-> MarCommand(raw), pointer |-> MarPointer(raw),
                          key_or_user_level |-> MarKey(raw) ]
               ELSE [ op |-> "mar_new", accepted |-> FALSE ]
    /\ SessionUntouched

\* MemoryAccessRequest::try_from(slice), then the bytes of the request
MarDecode(slice) ==
    /\ conv = NoConv
    /\ conv' = LET d == MarTryFrom(slice)
               IN  IF d.ok
                   THEN [ op |-> "mar_try_from", slice |-> slice, ok |-> TRUE,
                          bytes |-> MarToBytes(d.value),
                          pointer |-> MarPointer(d.value) ]
                   ELSE [ op |-> "mar_try_from", slice |-> slice, ok |-> FALSE ]
    /\ SessionUntouched

DiagNext ==
    \/ \E c \in CommandInputs, p \in PointerInputs, l \in LengthInputs, k \in KeyInputs :
          MarNew(c, p, l, k)
    \/ \E s \in MarSliceInputs : MarDecode(s)

DiagSpec == CodecInit /\ [][DiagNext]_vars

\* C30: memory access request round trip. The accessors of a request built by
\* new from one of the eight commands, a direct or spatial pointer, a length
\* in 0..2047 and a 16-bit key return the constructor's arguments, the kind of
\* the pointer included; decoding an 8-byte slice and encoding it gives the
\* same 8 bytes.
C30_MemoryAccessRoundTrip ==
    /\ (conv.op = "mar_new" /\ conv.accepted) =>
          /\ conv.length = conv.args.length
          /\ CommandEq(conv.command, conv.args.command)
          /\ conv.pointer = conv.args.pointer
          /\ conv.key_or_user_level = conv.args.key_or_user_level
    /\ (conv.op = "mar_try_from" /\ Len(conv.slice) = 8) =>
          (conv.ok /\ conv.bytes = conv.slice)

\* C30 without the kind of the pointer, as a check of the model
C30_ExceptPointerKind ==
    /\ (conv.op = "mar_new" /\ conv.accepted) =>
          /\ conv.length = conv.args.length
          /\ CommandEq(conv.command, conv.args.command)
          /\ conv.pointer.value = conv.args.pointer.value
          /\ conv.key_or_user_level = conv.args.key_or_user_level
    /\ (conv.op = "mar_try_from" /\ Len(conv.slice) = 8) =>
          (conv.ok /\ conv.bytes = conv.slice)

====
